---- MODULE Spec2Model ----
(***************************************************************************)
(* Model of the file-converter front end.                                  *)
(*                                                                         *)
(*   Spec    HeroSection (backend-integrated variant): upload intake, the  *)
(*           per-file conversion records, handleConvertAll with its        *)
(*           progress interval, removeFile, handleFormatChange.            *)
(*   SpecWs  App (Converte Pro dashboard): the job list and the WebSocket  *)
(*           status channel of connectWebSocket.                           *)
(*   SpecDl  HeroSection with handleDownload, handleDownloadAll and the    *)
(*           timers of the staggered downloads.                            *)
(*   SpecIframe    IframeHeroSection: local intake, simulated conversion,  *)
(*                 resetInterface.                                         *)
(*   SpecValidate  ErrorHandler.validateFile applied to one File.          *)
(*   SpecMock      HeroSection (earlier variant): backend upload, target   *)
(*                 Select over the fallback list, simulated conversion.    *)
(*   SpecE2E       HeroSection from upload to the staggered downloads,     *)
(*                 with every conversion request answered successfully.    *)
(*   SpecTick      HeroSection with every tick of its progress intervals,  *)
(*                 up to the cap of the interval callback.                 *)
(*                                                                         *)
(* One action is one turn of the browser's event loop.  handleConvertAll   *)
(* is an async function: each await ends a turn, and the synchronous code  *)
(* between two awaits is cut at the loop head ("iter") only, where no      *)
(* other handler can run.                                                  *)
(***************************************************************************)
EXTENDS Integers, Sequences, FiniteSets, TLC

VARIABLES
    \* ---- HeroSection state hooks
    conversions,              \* useState([])  : sequence of conversion records
    completedConversions,     \* useState([])  : sequence of conversion ids
    showConversionInterface,  \* useState(false)
    isProcessing,             \* useState(false)
    isConverting,             \* useState(false)
    \* ---- HeroSection asynchronous control state
    upload,                   \* the pending POST /api/upload of handleFiles
    run,                      \* the pending handleConvertAll invocation
    progressInterval,         \* job id ticked by the interval of the current attempt, 0 = none
    leakedIntervals,          \* job ids ticked by intervals that were never cleared
    toast,                    \* toasts raised by the last step
    nextId,                   \* next id the backend assigns to an uploaded file
    runs,                     \* number of handleConvertAll invocations so far
    \* ---- App (dashboard) state
    jobs,                     \* useState([])  : sequence of job records
    appFiles,                 \* useState([])  : selectedFiles of the dashboard form
    conversionType,           \* useState('')
    processing,               \* useState(false)
    start,                    \* the pending startConversion invocation
    sockets,                  \* job ids that have an open WebSocket
    delivered,                \* number of WebSocket messages received so far
    appToast,                 \* toasts raised by the last dashboard step
    \* ---- handlers beside the conversion run
    timers,                   \* pending setTimeout callbacks of handleDownloadAll
    clicked,                  \* link.click() calls of the last download handler or timer
    downloadAlls,             \* number of handleDownloadAll invocations so far
    sinceReset,               \* resetInterface ran and no handleFiles since
    vfile,                    \* the File handed to ErrorHandler.validateFile
    verrors                   \* the errors validateFile returned for vfile

vars == <<conversions, completedConversions, showConversionInterface,
          isProcessing, isConverting, upload, run, progressInterval, leakedIntervals,
          toast, nextId, runs, jobs, appFiles, conversionType, processing, start,
          sockets, delivered, appToast,
          timers, clicked, downloadAlls, sinceReset, vfile, verrors>>

heroVars == <<conversions, completedConversions, showConversionInterface,
              isProcessing, isConverting, upload, run, progressInterval, leakedIntervals,
              toast, nextId, runs>>

wsVars == <<jobs, appFiles, conversionType, processing, start, sockets, delivered,
            appToast>>

sideVars == <<timers, clicked, downloadAlls, sinceReset, vfile, verrors>>

----------------------------------------------------------------------------
\* Bounds of the model

MaxFiles == 2          \* files in one upload
MaxUploads == 2        \* handleFiles invocations that reach the backend
MaxRuns == 2           \* handleConvertAll invocations
MaxTicks == 2          \* interval ticks observed on one record between two resets of its progress
MaxJobs == 2           \* dashboard jobs created
MaxSel == 1            \* files selected in the dashboard form
MaxMsgs == 4           \* WebSocket messages received
MaxDownloadAlls == 1   \* handleDownloadAll invocations

----------------------------------------------------------------------------
\* Program constants

MaxFileSize == 1073741824     \* 1024 * 1024 * 1024
ProgressStep == 10
ProgressCap == 90

----------------------------------------------------------------------------
\* Sequence helpers

Range(s) == {s[i] : i \in 1..Len(s)}

\* a filter that keeps the record it should drop
FilterKeep(s, id) == SelectSeq(s, LAMBDA c : c.id = id)

\* prev.filter(conv => conv.id !== id)
RECURSIVE FilterOut(_, _)
FilterOut(s, id) ==
    IF s = <<>> THEN <<>>
    ELSE IF Head(s).id # id THEN <<Head(s)>> \o FilterOut(Tail(s), id)
    ELSE FilterOut(Tail(s), id)

\* number of positions of s whose element is x
RECURSIVE Count(_, _)
Count(s, x) ==
    IF s = <<>> THEN 0
    ELSE (IF Head(s) = x THEN 1 ELSE 0) + Count(Tail(s), x)

\* all subsequences of the index list 1..n, as increasing index sequences
RECURSIVE SubIndexSeqs(_)
SubIndexSeqs(n) ==
    IF n = 0 THEN {<<>>}
    ELSE LET r == SubIndexSeqs(n - 1)
         IN  r \cup {Append(q, n) : q \in r}

----------------------------------------------------------------------------
\* Files the user can pick

FileOrder == <<"photo.jpg", "notes.txt", "empty.txt", "huge.mp4">>

Files == Range(FileOrder)

\* the file lists a pick of at most n files can give: distinct files, in the
\* order the picker lists them
Picks(n) ==
    {[k \in 1..Len(q) |-> FileOrder[q[k]]] :
        q \in {r \in SubIndexSeqs(Len(FileOrder)) : Len(r) >= 1 /\ Len(r) <= n}}

FileSize(f) ==
    CASE f = "photo.jpg" -> 2097152
      [] f = "notes.txt" -> 10240
      [] f = "empty.txt" -> 0
      [] f = "huge.mp4"  -> MaxFileSize + 1

\* file.type of the picked files, as <<type, subtype>>
FileType(f) ==
    CASE f = "photo.jpg" -> <<"image", "jpeg">>
      [] f = "notes.txt" -> <<"text", "plain">>
      [] f = "empty.txt" -> <<"text", "plain">>
      [] f = "huge.mp4"  -> <<"video", "mp4">>

\* file.name of the picked files, as the list name.split('.') gives
FileName(f) ==
    CASE f = "photo.jpg" -> <<"photo", "jpg">>
      [] f = "notes.txt" -> <<"notes", "txt">>
      [] f = "empty.txt" -> <<"empty", "txt">>
      [] f = "huge.mp4"  -> <<"huge", "mp4">>

\* the File object of a picked file
File(f) == [name |-> FileName(f), size |-> FileSize(f), type |-> FileType(f)]

\* lines 197-202: supportedTypes.some(type => file.type.startsWith(type));
\* a subtype is one token, so a subtype prefix matches the equal subtype only
isSupported(type) ==
    /\ type # <<>>
    /\ \/ type[1] \in {"image", "video", "audio", "text"}
       \/ /\ type[1] = "application"
          /\ type[2] \in {"pdf", "msword",
                           "vnd.openxmlformats-officedocument.wordprocessingml.document",
                           "vnd.ms-excel",
                           "vnd.openxmlformats-officedocument.spreadsheetml.sheet"}

\* lines 207-214
supportedExtensions ==
    {"jpg", "jpeg", "png", "gif", "bmp", "tiff", "webp", "svg", "ico",
     "mp4", "avi", "mov", "wmv", "flv", "mkv", "webm", "ogv", "m4v",
     "mp3", "wav", "flac", "aac", "ogg", "m4a", "wma", "aiff", "au",
     "pdf", "doc", "docx", "txt", "rtf", "odt", "epub", "mobi",
     "xls", "xlsx", "csv", "ods", "ppt", "pptx", "odp",
     "zip", "rar", "7z", "tar", "gz", "bz2"}

\* String.prototype.toLowerCase on the extensions the model uses
toLowerCase(e) ==
    CASE e = "PNG" -> "png"
      [] e = "PDF" -> "pdf"
      [] e = "EXE" -> "exe"
      [] OTHER -> e

\* file.name.split('.').pop()?.toLowerCase()
extension(name) == toLowerCase(name[Len(name)])

\* a size check that also rejects a file of exactly the limit
validateFileGe(file) ==
    (IF file.size >= MaxFileSize THEN <<"FILE_TOO_LARGE">> ELSE <<>>)
    \o (IF file.size = 0 THEN <<"EMPTY_FILE">> ELSE <<>>)
    \o (IF ~isSupported(file.type) /\ file.name # <<>>
           /\ extension(file.name) \notin supportedExtensions
        THEN <<"UNSUPPORTED_FORMAT">> ELSE <<>>)

\* ErrorHandler.validateFile: the list of validation errors of one File
validateFile(file) ==
    (IF file.size > MaxFileSize THEN <<"FILE_TOO_LARGE">> ELSE <<>>)
    \o (IF file.size = 0 THEN <<"EMPTY_FILE">> ELSE <<>>)
    \o (IF ~isSupported(file.type) /\ file.name # <<>>
           /\ extension(file.name) \notin supportedExtensions
        THEN <<"UNSUPPORTED_FORMAT">> ELSE <<>>)

\* POST /api/upload, per-file part of the response: source_format
SourceFormat(f) ==
    CASE f = "photo.jpg" -> "JPG"
      [] f = "notes.txt" -> "TXT"
      [] f = "empty.txt" -> "TXT"
      [] f = "huge.mp4"  -> "MP4"

\* POST /api/upload, per-file part of the response: supported_formats
BackendFormats(f) ==
    CASE SourceFormat(f) = "JPG" -> {"PNG", "PDF"}
      [] SourceFormat(f) = "TXT" -> {"PDF"}
      [] OTHER -> {"PNG", "PDF"}

Formats == {"PNG", "PDF"}

\* getFormatOptions: the options of the target-format selector
getFormatOptions(conv) == conv.supportedFormats

----------------------------------------------------------------------------
\* Conversion records

NoUrl == <<>>          \* conversion.downloadUrl is undefined
NoError == ""          \* conversion.error is undefined

\* handleFiles: the record built from response entry k (computed by the
\* backend from the file sent at position sent[k]) and files[k]
NewConversion(files, sent, k, base) ==
    [id |-> base + sent[k],
     file |-> files[k],
     originalFormat |-> SourceFormat(files[sent[k]]),
     supportedFormats |-> BackendFormats(files[sent[k]]),
     targetFormat |-> "",
     status |-> "ready",
     progress |-> 0,
     downloadUrl |-> NoUrl,
     error |-> NoError]

Ids(convs) == {convs[i].id : i \in 1..Len(convs)}

MarkConverting(conv) == [conv EXCEPT !.status = "converting", !.progress = 0]

\* a completion that forgets the status
MarkCompletedStuck(conv, url) ==
    [conv EXCEPT !.progress = 100, !.downloadUrl = url]

MarkCompleted(conv, url) ==
    [conv EXCEPT !.status = "completed", !.progress = 100, !.downloadUrl = url]

MarkFailed(conv, msg) ==
    [conv EXCEPT !.status = "failed", !.progress = 0, !.error = msg]

\* a tick whose test lets the value 90 through
TickOneLate(conv) ==
    IF conv.progress <= ProgressCap
    THEN [conv EXCEPT !.progress = conv.progress + ProgressStep]
    ELSE conv

TickOne(conv) ==
    IF conv.progress < ProgressCap
    THEN [conv EXCEPT !.progress = conv.progress + ProgressStep]
    ELSE conv

\* prev.map(conv => conv.id === id ? {...conv, status: 'converting', progress: 0} : conv)
ConvertingById(convs, id) ==
    [i \in 1..Len(convs) |-> IF convs[i].id = id THEN MarkConverting(convs[i]) ELSE convs[i]]

\* prev.map(conv => conv.id === id ? {...conv, status: 'completed', ...} : conv)
CompletedById(convs, id, url) ==
    [i \in 1..Len(convs) |-> IF convs[i].id = id THEN MarkCompleted(convs[i], url) ELSE convs[i]]

\* prev.map(conv => conv.id === id ? {...conv, status: 'failed', ...} : conv)
FailedById(convs, id, msg) ==
    [i \in 1..Len(convs) |-> IF convs[i].id = id THEN MarkFailed(convs[i], msg) ELSE convs[i]]

\* prev.map(conv => conv.id === id && conv.progress < 90 ? {...} : conv)
TickById(convs, id) ==
    [i \in 1..Len(convs) |-> IF convs[i].id = id THEN TickOne(convs[i]) ELSE convs[i]]

IdleRun == [pc |-> "idle", ready |-> <<>>, i |-> 0, completedCount |-> 0]

NoUpload == <<>>

----------------------------------------------------------------------------
\* HeroSection: initial state (the useState initialisers)

HeroInit ==
    /\ conversions = <<>>
    /\ completedConversions = <<>>
    /\ showConversionInterface = FALSE
    /\ isProcessing = FALSE
    /\ isConverting = FALSE
    /\ upload = NoUpload
    /\ run = IdleRun
    /\ progressInterval = 0
    /\ leakedIntervals = {}
    /\ toast = {}
    /\ nextId = 0
    /\ runs = 0

NoStart == [pc |-> "idle", job |-> 0]

NoFile == [name |-> <<>>, size |-> 1, type |-> <<>>]

NotValidated == <<"not validated">>

SideInit ==
    /\ timers = <<>>
    /\ clicked = <<>>
    /\ downloadAlls = 0
    /\ sinceReset = FALSE
    /\ vfile = NoFile
    /\ verrors = NotValidated

WsInit ==
    /\ jobs = <<>>
    /\ appFiles = <<>>
    /\ conversionType = ""
    /\ processing = FALSE
    /\ start = NoStart
    /\ sockets = {}
    /\ delivered = 0
    /\ appToast = {}

\* no handler runs in the middle of a turn of handleConvertAll
TurnBoundary == run.pc # "iter"

----------------------------------------------------------------------------
\* HeroSection.handleFiles

\* the validation errors of every file of the upload, as toasts
ValidationToasts(files) ==
    UNION {Range(validateFile(File(files[k]))) : k \in 1..Len(files)}

\* lines 240-261: validation, then the upload request is sent
handleFiles(files) ==
    /\ TurnBoundary
    /\ upload = NoUpload
    /\ nextId < MaxUploads * MaxFiles
    /\ Len(files) > 0
    /\ IF ValidationToasts(files) # {}
       THEN /\ toast' = ValidationToasts(files)
            /\ UNCHANGED <<isProcessing, upload>>
       ELSE /\ isProcessing' = TRUE
            /\ upload' = files
            /\ toast' = {}
    /\ UNCHANGED <<conversions, completedConversions, showConversionInterface,
                   isConverting, run, progressInterval, leakedIntervals, nextId, runs>>
    /\ UNCHANGED <<sideVars, wsVars>>

\* lines 534-608: the file input (and the drop zone) is rendered in the upload
\* branch only, so fileInputRef.current is null in the conversion interface
fileInputMounted == ~showConversionInterface

\* handleFileSelect / handleDrop: the user picks files in the upload area
chooseFiles(files) ==
    /\ fileInputMounted
    /\ handleFiles(files)

\* addMoreFiles, lines 494-496: fileInputRef.current?.click(), and the user
\* picking files in the dialog when the click opened one
addMoreFiles(files) ==
    /\ TurnBoundary
    /\ showConversionInterface
    /\ IF fileInputMounted
       THEN handleFiles(files)
       ELSE /\ toast' = {}
            /\ UNCHANGED <<conversions, completedConversions, showConversionInterface,
                           isProcessing, isConverting, upload, run, progressInterval,
                           leakedIntervals, nextId, runs>>
            /\ UNCHANGED <<sideVars, wsVars>>

\* lines 280-297 and 301-303: a 2xx response listing the files at positions sent
UploadResolve(sent) ==
    /\ TurnBoundary
    /\ upload # NoUpload
    /\ conversions' = [k \in 1..Len(sent) |-> NewConversion(upload, sent, k, nextId)]
    /\ showConversionInterface' = TRUE
    /\ toast' = {"uploaded successfully"}
    /\ isProcessing' = FALSE
    /\ upload' = NoUpload
    /\ nextId' = nextId + MaxFiles
    /\ UNCHANGED <<completedConversions, isConverting, run,
                   progressInterval, leakedIntervals, runs>>
    /\ UNCHANGED <<sideVars, wsVars>>

\* a rejected upload whose finally block does not run
UploadRejectStuck ==
    /\ TurnBoundary
    /\ upload # NoUpload
    /\ toast' = {"Upload failed"}
    /\ upload' = NoUpload
    /\ nextId' = nextId + MaxFiles
    /\ UNCHANGED <<conversions, completedConversions, showConversionInterface,
                   isProcessing, isConverting, run, progressInterval,
                   leakedIntervals, runs>>
    /\ UNCHANGED <<sideVars, wsVars>>

\* lines 275-278 and 298-303: a non-2xx response or a rejected request
UploadReject ==
    /\ TurnBoundary
    /\ upload # NoUpload
    /\ toast' = {"Upload failed"}
    /\ isProcessing' = FALSE
    /\ upload' = NoUpload
    /\ nextId' = nextId + MaxFiles
    /\ UNCHANGED <<conversions, completedConversions, showConversionInterface,
                   isConverting, run, progressInterval,
                   leakedIntervals, runs>>
    /\ UNCHANGED <<sideVars, wsVars>>

----------------------------------------------------------------------------
\* HeroSection.handleFormatChange, through the selector of one file card

\* a selection that also puts the record back to ready
SetTargetReady(conv, format) ==
    [conv EXCEPT !.targetFormat = format, !.status = "ready", !.progress = 0]

SetTarget(conv, format) == [conv EXCEPT !.targetFormat = format]

\* prev.map(conv => conv.id === conversionId ? { ...conv, targetFormat: format } : conv)
TargetById(convs, id, format) ==
    [i \in 1..Len(convs) |-> IF convs[i].id = id THEN SetTarget(convs[i], format)
                                                ELSE convs[i]]

handleFormatChange(conversionId, format) ==
    /\ TurnBoundary
    /\ showConversionInterface
    /\ \E i \in 1..Len(conversions) :
          /\ conversions[i].id = conversionId
          /\ format \in getFormatOptions(conversions[i])
    /\ conversions' = TargetById(conversions, conversionId, format)
    /\ toast' = {}
    /\ UNCHANGED <<completedConversions, showConversionInterface,
                   isProcessing, isConverting, upload, run, progressInterval,
                   leakedIntervals, nextId, runs>>
    /\ UNCHANGED <<sideVars, wsVars>>

----------------------------------------------------------------------------
\* HeroSection.handleConvertAll

HasTarget(conv) == conv.targetFormat # ""

\* lines 334-338: the title of the validation toast
NoFormatToast == "Please select output formats"

\* a handler that takes every record, whatever its target format
readyConversionsAll(convs) == convs

\* line 331: conversions.filter(conv => conv.targetFormat)
readyConversions(convs) == SelectSeq(convs, HasTarget)

\* line 766: the disabled attribute of the Convert All button
ConvertAllDisabled ==
    isConverting \/ \A i \in 1..Len(conversions) : ~HasTarget(conversions[i])

\* a handler without the guard of lines 333-340
handleConvertAllUnguarded ==
    /\ TurnBoundary
    /\ showConversionInterface
    /\ ~isConverting
    /\ runs < MaxRuns
    /\ isConverting' = TRUE
    /\ run' = [pc |-> "iter", ready |-> readyConversions(conversions),
               i |-> 0, completedCount |-> 0]
    /\ runs' = runs + 1
    /\ toast' = {}
    /\ UNCHANGED <<conversions, completedConversions, showConversionInterface,
                   isProcessing, upload, progressInterval, leakedIntervals, nextId>>
    /\ UNCHANGED <<sideVars, wsVars>>

\* lines 330-343: the synchronous head of the handler.  The handler is
\* called with no run in flight (the button is disabled while isConverting);
\* its own guard of lines 333-340 is exercised with no target selected.
handleConvertAll ==
    /\ TurnBoundary
    /\ showConversionInterface
    /\ ~isConverting
    /\ runs < MaxRuns
    /\ IF Len(readyConversions(conversions)) = 0
       THEN /\ toast' = {NoFormatToast}
            /\ UNCHANGED <<isConverting, run, runs>>
       ELSE /\ isConverting' = TRUE
            /\ run' = [pc |-> "iter", ready |-> readyConversions(conversions),
                       i |-> 0, completedCount |-> 0]
            /\ runs' = runs + 1
            /\ toast' = {}
    /\ UNCHANGED <<conversions, completedConversions, showConversionInterface,
                   isProcessing, upload, progressInterval,
                   leakedIntervals, nextId>>
    /\ UNCHANGED <<sideVars, wsVars>>

\* the conversion the loop of line 346 is working on
Current == run.ready[run.i]

\* lines 346-384 and 443-447: the loop head; starts the next attempt up to
\* its fetch, or ends the run
Iterate ==
    /\ run.pc = "iter"
    /\ IF run.i < Len(run.ready)
       THEN /\ conversions' = ConvertingById(conversions, run.ready[run.i + 1].id)
            /\ progressInterval' = run.ready[run.i + 1].id
            /\ run' = [run EXCEPT !.pc = "fetch", !.i = run.i + 1]
            /\ toast' = {}
            /\ UNCHANGED isConverting
       ELSE /\ isConverting' = FALSE
            /\ toast' = IF run.completedCount > 0
                        THEN {"converted successfully"} ELSE {}
            /\ run' = IdleRun
            /\ UNCHANGED <<conversions, progressInterval>>
    /\ UNCHANGED <<completedConversions, showConversionInterface,
                   isProcessing, upload, leakedIntervals, nextId, runs>>
    /\ UNCHANGED <<sideVars, wsVars>>

\* lines 358-367: the callback of a progress interval that is still set
intervalTick(id) ==
    /\ TurnBoundary
    /\ id # 0
    /\ id = progressInterval \/ id \in leakedIntervals
    /\ conversions' = TickById(conversions, id)
    /\ toast' = {}
    /\ UNCHANGED <<completedConversions, showConversionInterface,
                   isProcessing, isConverting, upload, run, progressInterval,
                   leakedIntervals, nextId, runs>>
    /\ UNCHANGED <<sideVars, wsVars>>

\* lines 358-367: one tick of a progress interval, for the first MaxTicks
\* ticks on a record
TimerTick(id) ==
    /\ \A i \in 1..Len(conversions) :
          conversions[i].id = id => conversions[i].progress < MaxTicks * ProgressStep
    /\ intervalTick(id)

\* lines 381-391: the fetch resolves with a response; clearInterval runs
FetchResolve(ok) ==
    /\ run.pc = "fetch"
    /\ progressInterval' = 0
    /\ run' = [run EXCEPT !.pc = IF ok THEN "blob" ELSE "json"]
    /\ toast' = {}
    /\ UNCHANGED <<conversions, completedConversions, showConversionInterface,
                   isProcessing, isConverting, upload,
                   leakedIntervals, nextId, runs>>
    /\ UNCHANGED <<sideVars, wsVars>>

\* a catch block whose map has lost its id test
CatchBlockAll(msg) ==
    /\ conversions' = [i \in 1..Len(conversions) |-> MarkFailed(conversions[i], msg)]
    /\ toast' = {msg}
    /\ run' = [run EXCEPT !.pc = "iter"]
    /\ UNCHANGED <<completedConversions, showConversionInterface,
                   isProcessing, isConverting, upload, nextId, runs>>
    /\ UNCHANGED <<sideVars, wsVars>>

\* lines 422-440: the catch block for the attempt on Current
CatchBlock(msg) ==
    /\ conversions' = FailedById(conversions, Current.id, msg)
    /\ toast' = {msg}
    /\ run' = [run EXCEPT !.pc = "iter"]
    /\ UNCHANGED <<completedConversions, showConversionInterface,
                   isProcessing, isConverting, upload, nextId, runs>>
    /\ UNCHANGED <<sideVars, wsVars>>

\* line 381 throws (network error): line 386 is skipped, the interval keeps running
FetchReject ==
    /\ run.pc = "fetch"
    /\ leakedIntervals' = leakedIntervals \cup {progressInterval}
    /\ progressInterval' = 0
    /\ CatchBlock("Failed to fetch")

\* lines 388-391: the error body of a non-2xx response has been read
JsonDone ==
    /\ run.pc = "json"
    /\ UNCHANGED <<progressInterval, leakedIntervals>>
    /\ CatchBlock("Conversion failed with status 500")

\* lines 394-420: the body of a 2xx response has been read
BlobDone(empty) ==
    /\ run.pc = "blob"
    /\ UNCHANGED <<progressInterval, leakedIntervals>>
    /\ IF empty
       THEN CatchBlock("Converted file is empty")
       ELSE /\ conversions' = CompletedById(conversions, Current.id,
                                              <<Current.targetFormat>>)
            /\ completedConversions' = Append(completedConversions, Current.id)
            /\ run' = [run EXCEPT !.pc = "iter",
                                  !.completedCount = run.completedCount + 1]
            /\ toast' = {}
            /\ UNCHANGED <<showConversionInterface, isProcessing,
                           isConverting, upload, nextId, runs>>
            /\ UNCHANGED <<sideVars, wsVars>>

----------------------------------------------------------------------------
\* HeroSection.removeFile, through the X button of one file card

removeFile(conversionId) ==
    /\ TurnBoundary
    /\ showConversionInterface
    /\ conversionId \in Ids(conversions)
    /\ conversions' = FilterOut(conversions, conversionId)
    /\ IF Len(conversions) = 1
       THEN showConversionInterface' = FALSE
       ELSE UNCHANGED showConversionInterface
    /\ toast' = {}
    /\ UNCHANGED <<completedConversions, isProcessing, isConverting, upload, run,
                   progressInterval, leakedIntervals, nextId, runs>>
    /\ UNCHANGED <<sideVars, wsVars>>

----------------------------------------------------------------------------
\* HeroSection.handleDownload and handleDownloadAll

StaggerMs == 500

\* conversions.find(c => c.id === conversionId), as a list of at most one record
Find(convs, id) ==
    LET hits == SelectSeq(convs, LAMBDA c : c.id = id)
    IN  IF hits = <<>> THEN <<>> ELSE <<Head(hits)>>

\* lines 453-455: the anchor that is clicked for a record
Anchor(conv) ==
    [id |-> conv.id, href |-> conv.downloadUrl,
     download |-> <<FileName(conv.file)[1], toLowerCase(conv.targetFormat)>>]

\* lines 450-462, run against the conversions array its closure holds
Download(convs, id) ==
    LET found == Find(convs, id) IN
    IF found # <<>> /\ found[1].status = "completed" /\ found[1].downloadUrl # NoUrl
    THEN /\ clicked' = <<Anchor(found[1])>>
         /\ toast' = {"Download started"}
    ELSE /\ clicked' = <<>>
         /\ toast' = {}

\* the Download button of a file card (lines 728-740, rendered for completed records)
handleDownload(conversionId) ==
    /\ TurnBoundary
    /\ showConversionInterface
    /\ \E i \in 1..Len(conversions) :
          conversions[i].id = conversionId /\ conversions[i].status = "completed"
    /\ Download(conversions, conversionId)
    /\ UNCHANGED <<conversions, completedConversions, showConversionInterface,
                   isProcessing, isConverting, upload, run, progressInterval,
                   leakedIntervals, nextId, runs>>
    /\ UNCHANGED <<timers, downloadAlls, sinceReset, vfile, verrors>>
    /\ UNCHANGED wsVars

\* a filter that lets every record through
completedOnlyAll(convs) == convs

\* line 465: conversions.filter(c => c.status === 'completed')
completedOnly(convs) == SelectSeq(convs, LAMBDA c : c.status = "completed")

\* lines 476-480: the timers of one handleDownloadAll call; each callback
\* holds the handleDownload, and so the conversions array, of this render
NewTimers(done, convs) ==
    [k \in 1..Len(done) |->
        [id |-> done[k].id, wait |-> (k - 1) * StaggerMs, closure |-> convs]]

\* lines 464-484, through the Download All button (lines 779-787)
handleDownloadAll ==
    /\ TurnBoundary
    /\ showConversionInterface
    /\ Len(completedConversions) > 0
    /\ downloadAlls < MaxDownloadAlls
    /\ downloadAlls' = downloadAlls + 1
    /\ IF Len(completedOnly(conversions)) = 0
       THEN /\ toast' = {"No files to download"}
            /\ UNCHANGED timers
       ELSE /\ timers' = timers \o NewTimers(completedOnly(conversions), conversions)
            /\ toast' = {"file(s) downloading"}
    /\ clicked' = <<>>
    /\ UNCHANGED <<conversions, completedConversions, showConversionInterface,
                   isProcessing, isConverting, upload, run, progressInterval,
                   leakedIntervals, nextId, runs>>
    /\ UNCHANGED <<sinceReset, vfile, verrors>>
    /\ UNCHANGED wsVars

\* StaggerMs of time pass; a timer that is due stays due
Elapse ==
    /\ TurnBoundary
    /\ \E k \in 1..Len(timers) : timers[k].wait > 0
    /\ timers' = [k \in 1..Len(timers) |->
                     [timers[k] EXCEPT !.wait = IF @ > StaggerMs THEN @ - StaggerMs ELSE 0]]
    /\ toast' = {}
    /\ UNCHANGED <<conversions, completedConversions, showConversionInterface,
                   isProcessing, isConverting, upload, run, progressInterval,
                   leakedIntervals, nextId, runs>>
    /\ UNCHANGED <<clicked, downloadAlls, sinceReset, vfile, verrors>>
    /\ UNCHANGED wsVars

\* the timers the browser runs next: due, with no due timer registered before
DueTimers ==
    {k \in 1..Len(timers) :
        /\ timers[k].wait = 0
        /\ \A j \in 1..(k - 1) : timers[j].wait > 0}

\* timers without the one at position k
DropTimer(k) == [j \in 1..(Len(timers) - 1) |-> IF j < k THEN timers[j] ELSE timers[j + 1]]

\* lines 477-479: the callback of a due timer runs
FireTimer ==
    /\ TurnBoundary
    /\ \E k \in DueTimers :
          /\ Download(timers[k].closure, timers[k].id)
          /\ timers' = DropTimer(k)
    /\ UNCHANGED <<conversions, completedConversions, showConversionInterface,
                   isProcessing, isConverting, upload, run, progressInterval,
                   leakedIntervals, nextId, runs>>
    /\ UNCHANGED <<downloadAlls, sinceReset, vfile, verrors>>
    /\ UNCHANGED wsVars

----------------------------------------------------------------------------
\* The HeroSection specification

JobIds == 1..(MaxUploads * MaxFiles)

Init == HeroInit /\ WsInit /\ SideInit

Next ==
    \/ \E files \in Picks(MaxFiles) : chooseFiles(files)
    \/ \E files \in Picks(MaxFiles) : addMoreFiles(files)
    \/ \E sent \in SubIndexSeqs(Len(upload)) : UploadResolve(sent)
    \/ UploadReject
    \/ \E id \in JobIds, f \in Formats : handleFormatChange(id, f)
    \/ handleConvertAll
    \/ Iterate
    \/ \E id \in JobIds : TimerTick(id)
    \/ \E ok \in BOOLEAN : FetchResolve(ok)
    \/ FetchReject
    \/ JsonDone
    \/ \E empty \in BOOLEAN : BlobDone(empty)
    \/ \E id \in JobIds : removeFile(id)

Spec == Init /\ [][Next]_vars

\* HeroSection with its download handlers.  No download handler reads a
\* progress value, so the ticks of the progress interval are left out.
NextDl ==
    \/ \E files \in Picks(MaxFiles) : chooseFiles(files)
    \/ \E sent \in SubIndexSeqs(Len(upload)) : UploadResolve(sent)
    \/ UploadReject
    \/ \E id \in JobIds, f \in Formats : handleFormatChange(id, f)
    \/ handleConvertAll
    \/ Iterate
    \/ \E ok \in BOOLEAN : FetchResolve(ok)
    \/ FetchReject
    \/ JsonDone
    \/ \E empty \in BOOLEAN : BlobDone(empty)
    \/ \E id \in JobIds : removeFile(id)
    \/ \E id \in JobIds : handleDownload(id)
    \/ handleDownloadAll
    \/ Elapse
    \/ FireTimer

SpecDl == Init /\ [][NextDl]_vars

----------------------------------------------------------------------------
\* HeroSection with every tick of its progress intervals: an interval ticks
\* every 500 ms for as long as it is set, up to the cap of line 361.
NextTick ==
    \/ \E files \in Picks(MaxFiles) : chooseFiles(files)
    \/ \E sent \in SubIndexSeqs(Len(upload)) : UploadResolve(sent)
    \/ UploadReject
    \/ \E id \in JobIds, f \in Formats : handleFormatChange(id, f)
    \/ handleConvertAll
    \/ Iterate
    \/ \E id \in JobIds : intervalTick(id)
    \/ \E ok \in BOOLEAN : FetchResolve(ok)
    \/ FetchReject
    \/ JsonDone
    \/ \E empty \in BOOLEAN : BlobDone(empty)
    \/ \E id \in JobIds : removeFile(id)

SpecTick == Init /\ [][NextTick]_vars

----------------------------------------------------------------------------
\* HeroSection, the run of a session nobody interferes with: no file is
\* removed, and every conversion request returns a non-empty 2xx body.  The
\* event loop runs every continuation that is ready, and every request
\* returns: weak fairness on the steps of the run.

NextE2E ==
    \/ \E files \in Picks(MaxFiles) : chooseFiles(files)
    \/ \E sent \in SubIndexSeqs(Len(upload)) : UploadResolve(sent)
    \/ \E id \in JobIds, f \in Formats : handleFormatChange(id, f)
    \/ handleConvertAll
    \/ Iterate
    \/ \E id \in JobIds : TimerTick(id)
    \/ FetchResolve(TRUE)
    \/ BlobDone(FALSE)
    \/ handleDownloadAll
    \/ Elapse
    \/ FireTimer

SpecE2E ==
    /\ Init
    /\ [][NextE2E]_vars
    /\ WF_vars(Iterate)
    /\ WF_vars(FetchResolve(TRUE))
    /\ WF_vars(BlobDone(FALSE))

----------------------------------------------------------------------------
\* IframeHeroSection (static deployment): the same state hooks, a local
\* intake without a backend, a simulated conversion, and resetInterface.
\* handleFormatChange, the head of handleConvertAll and removeFile have the
\* code of HeroSection and are the actions above.

\* String.prototype.toUpperCase on the extensions the model uses
toUpperCase(e) ==
    CASE e = "jpg" -> "JPG"
      [] e = "txt" -> "TXT"
      [] e = "mp4" -> "MP4"
      [] OTHER -> e

\* a table lookup without the fallback
getSupportedFormatsNoFallback(originalFormat) ==
    CASE originalFormat = "JPG" -> {"PNG", "WEBP", "BMP", "TIFF", "GIF", "PDF", "ICO", "SVG"}
      [] originalFormat = "PNG" -> {"JPG", "WEBP", "BMP", "TIFF", "GIF", "PDF", "ICO", "SVG"}
      [] originalFormat = "PDF" -> {"DOC", "DOCX", "TXT", "RTF", "ODT", "JPG", "PNG"}
      [] originalFormat = "MP4" -> {"AVI", "MOV", "WMV", "FLV", "MKV", "WEBM", "MP3", "WAV"}
      [] originalFormat = "MP3" -> {"WAV", "FLAC", "AAC", "OGG", "M4A", "WMA", "AIFF"}
      [] originalFormat = "DOCX" -> {"DOC", "PDF", "TXT", "RTF", "ODT"}
      [] OTHER -> {}

\* lines 19-29: the format table and its fallback
getSupportedFormats(originalFormat) ==
    CASE originalFormat = "JPG" -> {"PNG", "WEBP", "BMP", "TIFF", "GIF", "PDF", "ICO", "SVG"}
      [] originalFormat = "PNG" -> {"JPG", "WEBP", "BMP", "TIFF", "GIF", "PDF", "ICO", "SVG"}
      [] originalFormat = "PDF" -> {"DOC", "DOCX", "TXT", "RTF", "ODT", "JPG", "PNG"}
      [] originalFormat = "MP4" -> {"AVI", "MOV", "WMV", "FLV", "MKV", "WEBM", "MP3", "WAV"}
      [] originalFormat = "MP3" -> {"WAV", "FLAC", "AAC", "OGG", "M4A", "WMA", "AIFF"}
      [] originalFormat = "DOCX" -> {"DOC", "PDF", "TXT", "RTF", "ODT"}
      [] OTHER -> {"PDF", "JPG", "PNG", "TXT"}

\* lines 62-73: the record built for files[k]; stamp stands for Date.now()
iframeNewConversion(files, k, stamp) ==
    LET originalFormat == toUpperCase(FileName(files[k])[Len(FileName(files[k]))]) IN
    [id |-> stamp + k,
     file |-> files[k],
     originalFormat |-> originalFormat,
     supportedFormats |-> getSupportedFormats(originalFormat),
     targetFormat |-> "",
     status |-> "ready",
     progress |-> 0,
     downloadUrl |-> NoUrl,
     error |-> NoError]

\* lines 53-59: handleFiles up to its await; no validation is done
iframeHandleFiles(files) ==
    /\ TurnBoundary
    /\ fileInputMounted
    /\ upload = NoUpload
    /\ nextId < MaxUploads * MaxFiles
    /\ Len(files) > 0
    /\ isProcessing' = TRUE
    /\ upload' = files
    /\ sinceReset' = FALSE
    /\ toast' = {}
    /\ UNCHANGED <<conversions, completedConversions, showConversionInterface,
                   isConverting, run, progressInterval, leakedIntervals, nextId, runs>>
    /\ UNCHANGED <<timers, clicked, downloadAlls, vfile, verrors>>
    /\ UNCHANGED wsVars

\* lines 60-92: the 1000 ms timer has resolved
iframeFilesReady ==
    /\ TurnBoundary
    /\ upload # NoUpload
    /\ conversions' = [k \in 1..Len(upload) |-> iframeNewConversion(upload, k, nextId)]
    /\ showConversionInterface' = TRUE
    /\ toast' = {"Files uploaded successfully!"}
    /\ isProcessing' = FALSE
    /\ upload' = NoUpload
    /\ nextId' = nextId + MaxFiles
    /\ UNCHANGED <<completedConversions, isConverting, run,
                   progressInterval, leakedIntervals, runs>>
    /\ UNCHANGED <<sideVars, wsVars>>

FirstProgress == 10
ProgressJump == 20

\* prev.map(conv => conv.id === conversion.id ? { ...conv, progress } : conv)
ProgressById(convs, id, p) ==
    [i \in 1..Len(convs) |-> IF convs[i].id = id THEN [convs[i] EXCEPT !.progress = p]
                                                ELSE convs[i]]

\* lines 129-141 and 187-195: the loop head; starts the next simulated
\* conversion up to its first await, or ends the run
iframeIterate ==
    /\ run.pc = "iter"
    /\ IF run.i < Len(run.ready)
       THEN /\ conversions' = ConvertingById(conversions, run.ready[run.i + 1].id)
            /\ run' = [pc |-> "sleep", ready |-> run.ready, i |-> run.i + 1,
                       completedCount |-> run.completedCount, progress |-> FirstProgress]
            /\ toast' = {}
            /\ UNCHANGED isConverting
       ELSE /\ isConverting' = FALSE
            /\ toast' = IF run.completedCount > 0
                        THEN {"Conversion completed!"} ELSE {}
            /\ run' = IdleRun
            /\ UNCHANGED conversions
    /\ UNCHANGED <<completedConversions, showConversionInterface, isProcessing,
                   upload, progressInterval, leakedIntervals, nextId, runs>>
    /\ UNCHANGED <<sideVars, wsVars>>

\* lines 142-173: a 300 ms timer has resolved; the progress value is stored,
\* and after the last one the record is marked completed in the same turn
iframeWake ==
    /\ run.pc = "sleep"
    /\ IF run.progress + ProgressJump <= 100
       THEN /\ conversions' = ProgressById(conversions, Current.id, run.progress)
            /\ run' = [run EXCEPT !.progress = run.progress + ProgressJump]
            /\ UNCHANGED completedConversions
       ELSE /\ conversions' = CompletedById(
                                  ProgressById(conversions, Current.id, run.progress),
                                  Current.id, <<Current.targetFormat>>)
            /\ completedConversions' = Append(completedConversions, Current.id)
            /\ run' = [pc |-> "iter", ready |-> run.ready, i |-> run.i,
                       completedCount |-> run.completedCount + 1]
    /\ toast' = {}
    /\ UNCHANGED <<showConversionInterface, isProcessing, isConverting,
                   upload, progressInterval, leakedIntervals, nextId, runs>>
    /\ UNCHANGED <<sideVars, wsVars>>

\* lines 251-256, through the Reset button of the conversion interface
resetInterface ==
    /\ TurnBoundary
    /\ showConversionInterface
    /\ conversions' = <<>>
    /\ completedConversions' = <<>>
    /\ showConversionInterface' = FALSE
    /\ sinceReset' = TRUE
    /\ toast' = {}
    /\ UNCHANGED <<isProcessing, isConverting, upload, run, progressInterval,
                   leakedIntervals, nextId, runs>>
    /\ UNCHANGED <<timers, clicked, downloadAlls, vfile, verrors>>
    /\ UNCHANGED wsVars

NextIframe ==
    \/ \E files \in Picks(MaxFiles) : iframeHandleFiles(files)
    \/ iframeFilesReady
    \/ \E id \in JobIds, f \in Formats : handleFormatChange(id, f)
    \/ handleConvertAll
    \/ iframeIterate
    \/ iframeWake
    \/ \E id \in JobIds : removeFile(id)
    \/ resetInterface

SpecIframe == Init /\ [][NextIframe]_vars

----------------------------------------------------------------------------
\* HeroSection, earlier variant (backend upload, simulated conversion).  The
\* upload response handling, the head of handleConvertAll and removeFile have
\* the code of the later variant and are the actions above.

\* the argument the Select hands to getFormatOptions: conversion.originalFormat,
\* a string, which has no supportedFormats property
JsString(str) == [string |-> str]

\* the fallback list of getFormatOptions
FormatFallback == {"PDF", "JPG", "PNG", "MP4", "MP3", "DOC", "TXT"}

\* getFormatOptions = (conversion) => conversion.supportedFormats || [...],
\* evaluated on the argument it is handed
mockGetFormatOptions(arg) ==
    IF "supportedFormats" \in DOMAIN arg THEN arg.supportedFormats ELSE FormatFallback

\* the formats picked at the Select in the model
MockFormats == {"PNG", "MP4"}

\* handleFiles up to the upload request; no validation is done
mockHandleFiles(files) ==
    /\ TurnBoundary
    /\ fileInputMounted
    /\ upload = NoUpload
    /\ nextId < MaxUploads * MaxFiles
    /\ Len(files) > 0
    /\ isProcessing' = TRUE
    /\ upload' = files
    /\ toast' = {}
    /\ UNCHANGED <<conversions, completedConversions, showConversionInterface,
                   isConverting, run, progressInterval, leakedIntervals, nextId, runs>>
    /\ UNCHANGED <<sideVars, wsVars>>

\* handleFormatChange through the Select of one file card
mockFormatChange(conversionId, format) ==
    /\ TurnBoundary
    /\ showConversionInterface
    /\ \E i \in 1..Len(conversions) :
          /\ conversions[i].id = conversionId
          /\ format \in mockGetFormatOptions(JsString(conversions[i].originalFormat))
    /\ conversions' = TargetById(conversions, conversionId, format)
    /\ toast' = {}
    /\ UNCHANGED <<completedConversions, showConversionInterface,
                   isProcessing, isConverting, upload, run, progressInterval,
                   leakedIntervals, nextId, runs>>
    /\ UNCHANGED <<sideVars, wsVars>>

\* prev.map(conv => conv.id === id ? { ...conv, status: 'completed', progress: 100 } : conv)
mockCompletedById(convs, id) ==
    [i \in 1..Len(convs) |->
        IF convs[i].id = id
        THEN [convs[i] EXCEPT !.status = "completed", !.progress = 100]
        ELSE convs[i]]

\* the loop head; starts the next simulated conversion up to its first
\* await, or ends the run
mockIterate ==
    /\ run.pc = "iter"
    /\ IF run.i < Len(run.ready)
       THEN /\ conversions' = ConvertingById(conversions, run.ready[run.i + 1].id)
            /\ run' = [pc |-> "sleep", ready |-> run.ready, i |-> run.i + 1,
                       completedCount |-> run.completedCount, progress |-> 0]
            /\ toast' = {}
            /\ UNCHANGED isConverting
       ELSE /\ isConverting' = FALSE
            /\ toast' = {"Conversion Complete!"}
            /\ run' = IdleRun
            /\ UNCHANGED conversions
    /\ UNCHANGED <<completedConversions, showConversionInterface, isProcessing,
                   upload, progressInterval, leakedIntervals, nextId, runs>>
    /\ UNCHANGED <<sideVars, wsVars>>

\* a 300 ms timer has resolved; the progress value is stored, and after the
\* last one the record is marked completed in the same turn
mockWake ==
    /\ run.pc = "sleep"
    /\ IF run.progress + ProgressJump <= 100
       THEN /\ conversions' = ProgressById(conversions, Current.id, run.progress)
            /\ run' = [run EXCEPT !.progress = run.progress + ProgressJump]
            /\ UNCHANGED completedConversions
       ELSE /\ conversions' = mockCompletedById(
                                  ProgressById(conversions, Current.id, run.progress),
                                  Current.id)
            /\ completedConversions' = Append(completedConversions, Current.id)
            /\ run' = [pc |-> "iter", ready |-> run.ready, i |-> run.i,
                       completedCount |-> run.completedCount]
    /\ toast' = {}
    /\ UNCHANGED <<showConversionInterface, isProcessing, isConverting,
                   upload, progressInterval, leakedIntervals, nextId, runs>>
    /\ UNCHANGED <<sideVars, wsVars>>

NextMock ==
    \/ \E files \in Picks(MaxFiles) : mockHandleFiles(files)
    \/ \E sent \in SubIndexSeqs(Len(upload)) : UploadResolve(sent)
    \/ UploadReject
    \/ \E id \in JobIds, f \in MockFormats : mockFormatChange(id, f)
    \/ handleConvertAll
    \/ mockIterate
    \/ mockWake
    \/ \E id \in JobIds : removeFile(id)

SpecMock == Init /\ [][NextMock]_vars

----------------------------------------------------------------------------
\* ErrorHandler.validateFile applied to one File

ValidateSizes == {0, 1, MaxFileSize - 1, MaxFileSize, MaxFileSize + 1, 2147483647}

ValidateTypes == {<<"image", "png">>, <<"application", "pdf">>,
                  <<"application", "x-msdownload">>, <<>>}

ValidateNames == {<<"scan", "PNG">>, <<"setup", "EXE">>, <<"backup", "tar", "gz">>, <<>>}

InitValidate ==
    /\ HeroInit
    /\ WsInit
    /\ timers = <<>>
    /\ clicked = <<>>
    /\ downloadAlls = 0
    /\ sinceReset = FALSE
    /\ vfile \in [name : ValidateNames, size : ValidateSizes, type : ValidateTypes]
    /\ verrors = NotValidated

Validate ==
    /\ verrors = NotValidated
    /\ verrors' = validateFile(vfile)
    /\ UNCHANGED <<heroVars, wsVars, timers, clicked, downloadAlls, sinceReset, vfile>>

SpecValidate == InitValidate /\ [][Validate]_vars

----------------------------------------------------------------------------
\* App (Converte Pro dashboard): the job list and its status channel

\* POST /jobs: the job document the backend answers with
NewJob(id, type) ==
    [id |-> id, conversion_type |-> type, status |-> "pending", progress |-> 0]

\* the progress values a status message can carry
ProgressValues == {10, 20, 30, 80}

\* the messages the backend pushes on the socket of a job
Messages ==
    {[status |-> "processing", progress |-> p] : p \in ProgressValues}
    \cup {[progress |-> p] : p \in ProgressValues}
    \cup {[status |-> "completed", progress |-> 100, completed |-> TRUE,
           download_urls |-> <<"/api/download/out">>]}
    \cup {[status |-> "failed", error |-> "conversion failed",
           error_message |-> "conversion failed"]}

\* { ...job, ...data }
Spread(job, data) ==
    [f \in DOMAIN job \cup DOMAIN data |->
        IF f \in DOMAIN data THEN data[f] ELSE job[f]]

\* a merge that does not look at the id
MergeAll(js, jobId, data) == [i \in 1..Len(js) |-> Spread(js[i], data)]

\* prevJobs.map(job => job.id === jobId ? { ...job, ...data } : job)
MergeById(js, jobId, data) ==
    [i \in 1..Len(js) |-> IF js[i].id = jobId THEN Spread(js[i], data) ELSE js[i]]

\* ws.onmessage of the socket that connectWebSocket(jobId) opened
onmessage(jobId, data) ==
    /\ jobId \in sockets
    /\ delivered < MaxMsgs
    /\ delivered' = delivered + 1
    /\ jobs' = MergeById(jobs, jobId, data)
    /\ appToast' = IF "completed" \in DOMAIN data /\ data.completed
                   THEN {"Conversion completed!"}
                   ELSE IF "error" \in DOMAIN data /\ data.error # ""
                   THEN {"Conversion failed"}
                   ELSE {}
    /\ UNCHANGED <<appFiles, conversionType, processing, start, sockets>>
    /\ UNCHANGED <<heroVars, sideVars>>

\* an error handler that gives the job up
onerrorFails(jobId) ==
    /\ jobId \in sockets
    /\ jobs' = [i \in 1..Len(jobs) |->
                   IF jobs[i].id = jobId THEN [jobs[i] EXCEPT !.status = "failed"]
                                         ELSE jobs[i]]
    /\ appToast' = {}
    /\ UNCHANGED <<appFiles, conversionType, processing, start, sockets, delivered>>
    /\ UNCHANGED <<heroVars, sideVars>>

\* ws.onerror: logs only
onerror(jobId) ==
    /\ jobId \in sockets
    /\ appToast' = {}
    /\ UNCHANGED <<jobs, appFiles, conversionType, processing, start, sockets, delivered>>
    /\ UNCHANGED <<heroVars, sideVars>>

\* the connection of a job is lost; connectWebSocket registers no onclose
\* handler, the socket just delivers nothing any more
onclose(jobId) ==
    /\ jobId \in sockets
    /\ sockets' = sockets \ {jobId}
    /\ appToast' = {}
    /\ UNCHANGED <<jobs, appFiles, conversionType, processing, start, delivered>>
    /\ UNCHANGED <<heroVars, sideVars>>

\* handleFileSelect / handleDrop of the dashboard form
appSelectFiles(files) ==
    /\ Len(appFiles) + Len(files) <= MaxSel
    /\ appFiles' = appFiles \o files
    /\ appToast' = {}
    /\ UNCHANGED <<jobs, conversionType, processing, start, sockets, delivered>>
    /\ UNCHANGED <<heroVars, sideVars>>

\* the tool cards: onClick={() => setConversionType(key)}
chooseTool(key) ==
    /\ conversionType # key
    /\ conversionType' = key
    /\ appToast' = {}
    /\ UNCHANGED <<jobs, appFiles, processing, start, sockets, delivered>>
    /\ UNCHANGED <<heroVars, sideVars>>

\* startConversion, lines 566-580: the guard and the create request
startConversion ==
    /\ start.pc = "idle"
    /\ ~processing
    /\ Len(jobs) < MaxJobs
    /\ IF conversionType = "" \/ Len(appFiles) = 0
       THEN /\ appToast' = {"Please select files and conversion type"}
            /\ UNCHANGED <<processing, start>>
       ELSE /\ processing' = TRUE
            /\ start' = [pc |-> "create", job |-> 0]
            /\ appToast' = {}
    /\ UNCHANGED <<jobs, appFiles, conversionType, sockets, delivered>>
    /\ UNCHANGED <<heroVars, sideVars>>

\* a creation that opens the status channel at once
createConnects ==
    /\ start.pc = "create"
    /\ jobs' = <<NewJob(Len(jobs) + 1, conversionType)>> \o jobs
    /\ start' = [pc |-> "upload", job |-> Len(jobs) + 1]
    /\ sockets' = sockets \cup {Len(jobs) + 1}
    /\ appToast' = {}
    /\ UNCHANGED <<appFiles, conversionType, processing, delivered>>
    /\ UNCHANGED <<heroVars, sideVars>>

\* lines 582-595: the create request succeeded; the upload request is sent
createResolved ==
    /\ start.pc = "create"
    /\ jobs' = <<NewJob(Len(jobs) + 1, conversionType)>> \o jobs
    /\ start' = [pc |-> "upload", job |-> Len(jobs) + 1]
    /\ appToast' = {}
    /\ UNCHANGED <<appFiles, conversionType, processing, sockets, delivered>>
    /\ UNCHANGED <<heroVars, sideVars>>

\* lines 597-601: the upload succeeded; the socket is opened, the start request sent
uploadResolved ==
    /\ start.pc = "upload"
    /\ sockets' = sockets \cup {start.job}
    /\ start' = [start EXCEPT !.pc = "start"]
    /\ appToast' = {}
    /\ UNCHANGED <<jobs, appFiles, conversionType, processing, delivered>>
    /\ UNCHANGED <<heroVars, sideVars>>

\* lines 603-610 and 615-617: the start request succeeded
startResolved ==
    /\ start.pc = "start"
    /\ appFiles' = <<>>
    /\ conversionType' = ""
    /\ appToast' = {"Conversion started!"}
    /\ processing' = FALSE
    /\ start' = NoStart
    /\ UNCHANGED <<jobs, sockets, delivered>>
    /\ UNCHANGED <<heroVars, sideVars>>

\* a failure that clears the form like a successful start
requestRejectedClears ==
    /\ start.pc \in {"create", "upload", "start"}
    /\ appToast' = {"Failed to start conversion"}
    /\ appFiles' = <<>>
    /\ conversionType' = ""
    /\ processing' = FALSE
    /\ start' = NoStart
    /\ UNCHANGED <<jobs, sockets, delivered>>
    /\ UNCHANGED <<heroVars, sideVars>>

\* lines 612-617: any of the three requests was rejected
requestRejected ==
    /\ start.pc \in {"create", "upload", "start"}
    /\ appToast' = {"Failed to start conversion"}
    /\ processing' = FALSE
    /\ start' = NoStart
    /\ UNCHANGED <<jobs, appFiles, conversionType, sockets, delivered>>
    /\ UNCHANGED <<heroVars, sideVars>>

\* cancelJob, lines 644-657, through the Cancel button of a processing job
cancelJob(jobId, ok) ==
    /\ \E i \in 1..Len(jobs) : jobs[i].id = jobId /\ jobs[i].status = "processing"
    /\ IF ok
       THEN /\ jobs' = [i \in 1..Len(jobs) |->
                           IF jobs[i].id = jobId
                           THEN [jobs[i] EXCEPT !.status = "cancelled"]
                           ELSE jobs[i]]
            /\ appToast' = {"Job cancelled successfully"}
       ELSE /\ appToast' = {"Failed to cancel job"}
            /\ UNCHANGED jobs
    /\ UNCHANGED <<appFiles, conversionType, processing, start, sockets, delivered>>
    /\ UNCHANGED <<heroVars, sideVars>>

DashboardIds == 1..MaxJobs

Tools == {"image_resize"}

NextWs ==
    \/ \E id \in DashboardIds, data \in Messages : onmessage(id, data)
    \/ \E id \in DashboardIds : onerror(id)
    \/ \E id \in DashboardIds : onclose(id)
    \/ \E f \in {<<"a.png">>} : appSelectFiles(f)
    \/ \E key \in Tools : chooseTool(key)
    \/ startConversion
    \/ createResolved
    \/ uploadResolved
    \/ startResolved
    \/ requestRejected
    \/ \E id \in DashboardIds, ok \in BOOLEAN : cancelJob(id, ok)

SpecWs == Init /\ [][NextWs]_vars

----------------------------------------------------------------------------
\* Properties of HeroSection (Spec) and of the dashboard (SpecWs)

Terminal == {"completed", "failed"}

\* number of records of convs with the given status
RECURSIVE CountStatus(_, _)
CountStatus(convs, st) ==
    IF convs = <<>> THEN 0
    ELSE (IF Head(convs).status = st THEN 1 ELSE 0) + CountStatus(Tail(convs), st)

\* C1: for every conversion record, status = completed iff the download
\* handle is set and the error detail unset, and status = failed iff the error
\* detail is set and the download handle unset.
C1_StatusPayload ==
    \A i \in 1..Len(conversions) :
        LET c == conversions[i] IN
        /\ (c.status = "completed") <=> (c.downloadUrl # NoUrl /\ c.error = NoError)
        /\ (c.status = "failed") <=> (c.error # NoError /\ c.downloadUrl = NoUrl)

\* C2: completedConversions holds an id iff that id is a record of conversions
\* with status completed, and holds no id twice, so that its length is the
\* number of completed records.
C2_CompletedIds ==
    /\ \A id \in Range(completedConversions) :
          /\ Count(completedConversions, id) = 1
          /\ \E i \in 1..Len(conversions) :
                conversions[i].id = id /\ conversions[i].status = "completed"
    /\ \A i \in 1..Len(conversions) :
          conversions[i].status = "completed"
             => conversions[i].id \in Range(completedConversions)
    /\ Len(completedConversions) = CountStatus(conversions, "completed")

\* C3: while a dashboard job is processing, a status message never lowers its
\* recorded progress.
C3_ProgressMonotone ==
    [][\A i \in 1..Len(jobs), j \in 1..Len(jobs') :
          (/\ jobs[i].id = jobs'[j].id
           /\ jobs[i].status = "processing"
           /\ jobs'[j].status = "processing")
          => jobs'[j].progress >= jobs[i].progress]_vars

\* C4: a status message that carries only a progress value changes nothing
\* of a job that is already completed or failed.
C4_TerminalOverridesProgress ==
    [][\A id \in DashboardIds, p \in ProgressValues :
          onmessage(id, [progress |-> p])
          => \A i \in 1..Len(jobs) :
                jobs[i].status \in Terminal => jobs'[i] = jobs[i]]_vars

\* C5, state part: a record without a target format is ready with progress 0.
C5_NoTargetStaysReady ==
    \A i \in 1..Len(conversions) :
        conversions[i].targetFormat = ""
           => conversions[i].status = "ready" /\ conversions[i].progress = 0

\* C5, step part: a run takes exactly the records that have a target format,
\* only the record the run is about to convert leaves ready, and the
\* validation toast is raised only when no record has a target format.
C5_RunTakesTargets ==
    /\ (~isConverting /\ isConverting')
          => /\ run'.ready = SelectSeq(conversions, LAMBDA c : c.targetFormat # "")
             /\ NoFormatToast \notin toast'
             /\ conversions' = conversions
    /\ \A i \in 1..Len(conversions), j \in 1..Len(conversions') :
          (/\ conversions[i].id = conversions'[j].id
           /\ conversions[i].status = "ready"
           /\ conversions'[j].status # "ready")
          => /\ conversions[i].targetFormat # ""
             /\ run.pc = "iter"
             /\ run.i < Len(run.ready)
             /\ run.ready[run.i + 1].id = conversions[i].id
             /\ run.ready[run.i + 1].targetFormat # ""
    /\ NoFormatToast \in toast'
          => \A i \in 1..Len(conversions) : conversions[i].targetFormat = ""

\* C5: a job with no target format is never started; convertAll on a mixed
\* batch starts exactly the jobs with a target format, leaves the others ready
\* with progress 0 and raises no validation message.
C5_PartialBatch == []C5_NoTargetStaysReady /\ [][C5_RunTakesTargets]_vars

C5_Witness ==
    \E i, j \in 1..Len(conversions) :
        /\ conversions[i].targetFormat = ""
        /\ conversions[i].status = "ready"
        /\ conversions[j].status = "completed"
        /\ isConverting

\* C6, state part: the Convert All button is enabled iff no run is in flight
\* and some record has a target format.
C6_ButtonEnabled ==
    (~ConvertAllDisabled)
       <=> (run.pc = "idle" /\ \E i \in 1..Len(conversions) : conversions[i].targetFormat # "")

\* C6, step part: the handler called with no target format selected raises
\* the validation toast and changes nothing else.
C6_NoTargetNoRun ==
    (handleConvertAll /\ \A i \in 1..Len(conversions) : conversions[i].targetFormat = "")
       => /\ NoFormatToast \in toast'
          /\ ~isConverting'
          /\ UNCHANGED <<conversions, completedConversions, isConverting, run,
                         progressInterval, leakedIntervals>>

\* C6: with no target format selected convertAll raises the validation
\* message and does not proceed, and the Convert All button is enabled iff no
\* run is in flight and some job has a target format.
C6_ValidationGuard == []C6_ButtonEnabled /\ [][C6_NoTargetNoRun]_vars

C6_Witness ==
    /\ NoFormatToast \in toast
    /\ Len(conversions) > 0
    /\ ~isConverting

\* the status changes the job state machine allows
AllowedEdges ==
    {<<"ready", "converting">>, <<"converting", "completed">>,
     <<"converting", "failed">>, <<"failed", "ready">>}

\* C7: the status of a record changes only along ready -> converting,
\* converting -> completed, converting -> failed and failed -> ready.
C7_StatusEdges ==
    [][\A i \in 1..Len(conversions), j \in 1..Len(conversions') :
          (/\ conversions[i].id = conversions'[j].id
           /\ conversions[i].status # conversions'[j].status)
          => <<conversions[i].status, conversions'[j].status>> \in AllowedEdges]_vars

\* C8, failure step: the step in which one record goes from converting to
\* failed changes no other record and leaves the run at its loop head.
C8_FailureChangesOneRecord ==
    \A i \in 1..Len(conversions), k \in 1..Len(conversions') :
        (/\ conversions[i].id = conversions'[k].id
         /\ conversions[i].status = "converting"
         /\ conversions'[k].status = "failed")
        => /\ Len(conversions') = Len(conversions)
           /\ k = i
           /\ \A j \in 1..Len(conversions) : j # i => conversions'[j] = conversions[j]
           /\ completedConversions' = completedConversions
           /\ run'.pc = "iter"
           /\ run'.ready = run.ready
           /\ run'.i = run.i

\* C8, continuation: at the loop head with records left, the run goes on to
\* the next record of its list and marks it converting.
C8_RunContinues ==
    (run.pc = "iter" /\ run.i < Len(run.ready))
       => /\ run'.pc = "fetch"
          /\ run'.i = run.i + 1
          /\ run'.ready = run.ready
          /\ \A j \in 1..Len(conversions) :
                conversions[j].id = run.ready[run.i + 1].id
                   => conversions'[j].status = "converting"

\* C8: the failure of one job changes no other job of the batch, and the
\* remaining jobs of the run are still converted.
C8_FailureIsolated == [][C8_FailureChangesOneRecord /\ C8_RunContinues]_vars

C8_Witness ==
    \E i, j \in 1..Len(conversions) :
        /\ i # j
        /\ conversions[i].status = "failed"
        /\ conversions[j].status = "completed"
        /\ run.pc = "iter"
        /\ run.i = 2
        /\ run.ready[1].id = conversions[i].id
        /\ run.ready[2].id = conversions[j].id

\* C9: progress is within 0..100, is 100 in every completed record and 0 in
\* every failed record.
C9_ProgressPinned ==
    \A i \in 1..Len(conversions) :
        /\ conversions[i].progress \in 0..100
        /\ conversions[i].status = "completed" => conversions[i].progress = 100
        /\ conversions[i].status = "failed" => conversions[i].progress = 0

----------------------------------------------------------------------------
\* Properties of removeFile, the upload intake, resetInterface and the downloads

\* C11: removeFile(id) removes the record from conversions and its id from
\* completedConversions: right after the call the id is in neither.
C11_RemoveForgetsId ==
    [][\A id \in JobIds :
          removeFile(id)
          => /\ id \notin Ids(conversions')
             /\ id \notin Range(completedConversions')]_vars

\* a step of the pending conversion attempt, or a tick of its interval
AttemptStep ==
    \/ \E ok \in BOOLEAN : FetchResolve(ok)
    \/ FetchReject
    \/ JsonDone
    \/ \E empty \in BOOLEAN : BlobDone(empty)
    \/ (run.pc \in {"fetch", "json", "blob"} /\ TimerTick(Current.id))

\* C12: once the record under conversion has been removed, nothing that
\* arrives later for its id re-creates it, adds the id to
\* completedConversions or changes a remaining record.
C12_AbandonedDiscarded ==
    [][(/\ run.pc \in {"fetch", "json", "blob"}
        /\ Current.id \notin Ids(conversions)
        /\ AttemptStep)
       => UNCHANGED <<conversions, completedConversions>>]_vars

\* C13: the conversion interface is shown iff conversions is non-empty.
C13_ModeIsDerived == showConversionInterface <=> (conversions # <<>>)

\* the files of a pick that pass validation, in pick order
ValidFiles(files) == SelectSeq(files, LAMBDA f : validateFile(File(f)) = <<>>)

\* C14, request part: adding valid files to a non-empty session starts their
\* intake and leaves the session as it is.
C14_AddStartsIntake ==
    \A files \in Picks(MaxFiles) :
        (/\ addMoreFiles(files)
         /\ conversions # <<>>
         /\ upload = NoUpload
         /\ ValidFiles(files) = files)
        => /\ upload' = files
           /\ UNCHANGED <<conversions, completedConversions>>

\* C14, response part: the records of an upload response are appended, ready
\* and in response order, after the records of the session, which are
\* unchanged, as is completedConversions.
C14_ResponseAppends ==
    \A sent \in SubIndexSeqs(Len(upload)) :
        UploadResolve(sent)
        => /\ Len(conversions') = Len(conversions) + Len(sent)
           /\ \A i \in 1..Len(conversions) : conversions'[i] = conversions[i]
           /\ \A k \in 1..Len(sent) :
                 /\ conversions'[Len(conversions) + k].status = "ready"
                 /\ conversions'[Len(conversions) + k].file = upload[k]
           /\ UNCHANGED completedConversions

\* C14: addFiles on a non-empty session appends the new jobs, ready and in
\* upload order, after the existing jobs, which keep every field, and
\* completedConversions is unchanged.
C14_AddFilesAppends == [][C14_AddStartsIntake /\ C14_ResponseAppends]_vars

\* C15: after resetInterface, and until handleFiles is called again,
\* conversions and completedConversions are empty and the upload area is
\* shown, also when a handleConvertAll run was in flight at the reset.
C15_ResetStaysEmpty ==
    sinceReset
       => /\ conversions = <<>>
          /\ completedConversions = <<>>
          /\ ~showConversionInterface

\* C16, scheduling: handleDownloadAll registers one timer for each completed
\* record, in record order, the k-th (from 0) at k * 500 ms, and none for any
\* other record; with no completed record it registers none, clicks nothing
\* and raises 'No files to download'.
C16_Schedule ==
    handleDownloadAll
       => LET done == SelectSeq(conversions, LAMBDA c : c.status = "completed") IN
          /\ clicked' = <<>>
          /\ Len(timers') = Len(timers) + Len(done)
          /\ \A j \in 1..Len(timers) : timers'[j] = timers[j]
          /\ \A k \in 1..Len(done) :
                /\ timers'[Len(timers) + k].id = done[k].id
                /\ timers'[Len(timers) + k].wait = (k - 1) * 500
          /\ ("No files to download" \in toast') <=> (done = <<>>)

\* C16, firing: timers are registered by handleDownloadAll only; a timer runs
\* when it is due and no timer registered before it is, is then gone, and
\* clicks exactly one anchor, that of its record.
C16_Fire ==
    /\ Len(timers') > Len(timers) => handleDownloadAll
    /\ FireTimer
          => \E k \in 1..Len(timers) :
                /\ timers[k].wait = 0
                /\ \A j \in 1..(k - 1) : timers[j].wait > 0
                /\ Len(timers') = Len(timers) - 1
                /\ \A j \in 1..Len(timers') :
                      timers'[j] = IF j < k THEN timers[j] ELSE timers[j + 1]
                /\ Len(clicked') = 1
                /\ clicked'[1].id = timers[k].id

\* C16: downloadAll triggers exactly one download for each completed job, in
\* job order, the k-th at k * 500 ms, and none for a job in another status;
\* with no completed job it triggers none and reports 'No files to download'.
C16_StaggeredDownloads == [][C16_Schedule /\ C16_Fire]_vars

C16_Witness ==
    /\ Len(conversions) = 2
    /\ Len(timers) = 1
    /\ timers[1].wait = 500
    /\ timers[1].id = conversions[2].id
    /\ Len(clicked) = 1
    /\ clicked[1].id = conversions[1].id

\* C17: an anchor is clicked only for a record that is, at that moment, in
\* conversions with status completed and a download URL, and the click uses
\* that URL.
C17_DownloadOnlyCompleted ==
    [][(FireTimer \/ \E id \in JobIds : handleDownload(id))
       => \A k \in 1..Len(clicked') :
             \E i \in 1..Len(conversions) :
                /\ conversions[i].id = clicked'[k].id
                /\ conversions[i].status = "completed"
                /\ conversions[i].downloadUrl # NoUrl
                /\ conversions[i].downloadUrl = clicked'[k].href]_vars

\* C18, state part: no record wraps a 0-byte file.
C18_NoEmptyFileJob ==
    \A i \in 1..Len(conversions) : FileSize(conversions[i].file) # 0

\* C18, step part: an upload that holds a 0-byte file raises the empty-file
\* error and starts no intake.
C18_EmptyFileStopsIntake ==
    \A files \in Picks(MaxFiles) :
        (iframeHandleFiles(files) /\ \E k \in 1..Len(files) : FileSize(files[k]) = 0)
        => /\ "EMPTY_FILE" \in toast'
           /\ UNCHANGED <<conversions, completedConversions, showConversionInterface,
                          upload, isProcessing>>

\* C18: uploading a 0-byte file is rejected with the empty-file error before
\* any job is created; conversions, completedConversions and the mode stay as
\* they were.
C18_EmptyFileRejected == []C18_NoEmptyFileJob /\ [][C18_EmptyFileStopsIntake]_vars

\* C19: of an upload with valid and invalid files, every valid file is
\* ingested and an error is reported for every invalid one.
C19_FailSoftIntake ==
    [][\A files \in Picks(MaxFiles) :
          chooseFiles(files)
          => /\ ValidationToasts(files) \subseteq toast'
             /\ ValidFiles(files) # <<>> => upload' = ValidFiles(files)]_vars

\* C20: validateFile reports FILE_TOO_LARGE exactly when the size exceeds
\* 1024 * 1024 * 1024 and EMPTY_FILE exactly when the size is 0, and never both.
C20_SizeErrors ==
    verrors # NotValidated
       => /\ ("FILE_TOO_LARGE" \in Range(verrors)) <=> (vfile.size > 1024 * 1024 * 1024)
          /\ ("EMPTY_FILE" \in Range(verrors)) <=> (vfile.size = 0)
          /\ ~("FILE_TOO_LARGE" \in Range(verrors) /\ "EMPTY_FILE" \in Range(verrors))

C20_Witness ==
    /\ verrors # NotValidated
    /\ vfile.size = 1024 * 1024 * 1024
    /\ "FILE_TOO_LARGE" \notin Range(verrors)
    /\ "EMPTY_FILE" \notin Range(verrors)

----------------------------------------------------------------------------
\* Properties of transport errors, of the target selection and of the run

\* C21: a network failure of the conversion request leaves the record it was
\* sent for as it is: status, progress and payload are kept.
C21_TransportKeepsState ==
    [][FetchReject
       => \A i \in 1..Len(conversions) :
             conversions[i].id = Current.id
                => /\ Len(conversions') = Len(conversions)
                   /\ conversions'[i] = conversions[i]]_vars

\* C22: an error on, or the loss of, the status connection of a job changes
\* no job and leaves the start form and its processing flag as they are.
C22_ConnectionLossKeepsJobs ==
    [][\A id \in DashboardIds :
          (onerror(id) \/ onclose(id))
          => UNCHANGED <<jobs, processing, start, appFiles, conversionType>>]_vars

C22_Witness ==
    \E i \in 1..Len(jobs) :
        /\ jobs[i].status = "processing"
        /\ jobs[i].progress > 0
        /\ jobs[i].id \notin sockets

\* at most one record is converting
OneConversionAtATime == CountStatus(conversions, "converting") <= 1

\* C23: the conversions of a run proceed concurrently: while the request of
\* the first record of a run of two or more is pending, a second record of
\* the run is converting too.
C23_BatchConvertsTogether ==
    (/\ run.pc = "fetch"
     /\ run.i = 1
     /\ Len(run.ready) >= 2
     /\ \A k \in 1..2 : run.ready[k].id \in Ids(conversions))
    => CountStatus(conversions, "converting") >= 2

\* C24, step part: handleFormatChange(id, f) sets the targetFormat of the
\* record with that id and changes nothing else, and a second call with the
\* same arguments changes nothing.
C24_OnlyTargetChanges ==
    \A id \in JobIds, f \in Formats :
        handleFormatChange(id, f)
        => /\ Len(conversions') = Len(conversions)
           /\ \A i \in 1..Len(conversions) :
                 conversions'[i] = IF conversions[i].id = id
                                   THEN [conversions[i] EXCEPT !.targetFormat = f]
                                   ELSE conversions[i]
           /\ UNCHANGED completedConversions
           /\ TargetById(conversions', id, f) = conversions'

\* C24, unknown id: the update for an id that no record has changes nothing.
C24_UnknownIdNoOp ==
    \A id \in JobIds \ Ids(conversions), f \in Formats :
        TargetById(conversions, id, f) = conversions

\* C24: selectTarget is idempotent, changes only the targetFormat of the job
\* with that id, never a status, a progress or completedConversions, and is a
\* no-op for an unknown id.
C24_SelectTargetNeutral == []C24_UnknownIdNoOp /\ [][C24_OnlyTargetChanges]_vars

C24_Witness ==
    \E i \in 1..Len(conversions) :
        /\ conversions[i].status = "completed"
        /\ conversions[i].progress = 100
        /\ conversions[i].targetFormat # ""
        /\ conversions[i].downloadUrl # <<conversions[i].targetFormat>>
        /\ \E id \in JobIds : id \notin Ids(conversions)

\* C25: the targetFormat of a record does not change while it is converting.
C25_NoSelectWhileConverting ==
    [][\A i \in 1..Len(conversions), j \in 1..Len(conversions') :
          (/\ conversions[i].id = conversions'[j].id
           /\ conversions[i].status = "converting"
           /\ conversions'[j].status = "converting")
          => conversions'[j].targetFormat = conversions[i].targetFormat]_vars

\* C26: the targetFormat of every record is empty or one of the record's own
\* supportedFormats.
C26_TargetIsSupported ==
    \A i \in 1..Len(conversions) :
        \/ conversions[i].targetFormat = ""
        \/ conversions[i].targetFormat \in conversions[i].supportedFormats

\* C27: every record of the local intake has a non-empty set of target
\* formats: the table entry of a recognised source format, the fallback set
\* {PDF, JPG, PNG, TXT} of any other, and so a non-empty selector.
C27_TargetsNeverEmpty ==
    \A i \in 1..Len(conversions) :
        LET c == conversions[i] IN
        /\ c.supportedFormats # {}
        /\ getFormatOptions(c) # {}
        /\ c.originalFormat \notin {"JPG", "PNG", "PDF", "MP4", "MP3", "DOCX"}
              => c.supportedFormats = {"PDF", "JPG", "PNG", "TXT"}
        /\ c.originalFormat = "JPG"
              => c.supportedFormats = {"PNG", "WEBP", "BMP", "TIFF", "GIF", "PDF", "ICO", "SVG"}
        /\ c.originalFormat = "MP4"
              => c.supportedFormats = {"AVI", "MOV", "WMV", "FLV", "MKV", "WEBM", "MP3", "WAV"}

C27_Witness ==
    /\ Len(conversions) = 2
    /\ conversions[1].originalFormat = "JPG"
    /\ conversions[2].originalFormat = "TXT"
    /\ conversions[2].supportedFormats = {"PDF", "JPG", "PNG", "TXT"}

\* the steps of one job that the push-mode state machine allows, on status,
\* progress and payload
JobStepAllowed(a, b) ==
    \/ /\ b.status = a.status
       /\ a.status # "converting"
       /\ b.progress = a.progress
       /\ b.downloadUrl = a.downloadUrl
       /\ b.error = a.error
    \/ /\ a.status = "ready"
       /\ b.status = "converting"
       /\ b.progress = 0
    \/ /\ a.status = "converting"
       /\ b.status = "converting"
       /\ b.progress >= a.progress
       /\ b.downloadUrl = a.downloadUrl
       /\ b.error = a.error
    \/ /\ a.status = "converting"
       /\ b.status = "completed"
       /\ b.progress = 100
       /\ b.downloadUrl # NoUrl
    \/ /\ a.status = "converting"
       /\ b.status = "failed"
       /\ b.progress = 0
       /\ b.error # NoError

\* C28: under the simulated status source every step of a job is a step of
\* the push-mode state machine: ready -> converting, non-decreasing progress
\* while converting, then one terminal step to completed with progress 100
\* and a download handle, or to failed with progress 0 and an error detail.
C28_SimulatedRefinesPush ==
    [][\A i \in 1..Len(conversions), j \in 1..Len(conversions') :
          conversions[i].id = conversions'[j].id
             => JobStepAllowed(conversions[i], conversions'[j])]_vars

\* C29, the run: a first run over the two records of the session ends with
\* both completed, isConverting false and two ids in completedConversions.
C29_RunCompletesBoth ==
    (/\ run.pc = "iter"
     /\ run.i = 0
     /\ Len(run.ready) = 2
     /\ Len(conversions) = 2
     /\ completedConversions = <<>>)
    ~> (/\ ~isConverting
        /\ Len(conversions) = 2
        /\ \A i \in 1..Len(conversions) : conversions[i].status = "completed"
        /\ Len(completedConversions) = 2)

\* C29, the downloads: with both records completed, handleDownloadAll
\* registers two timers, the second 500 ms after the first, and each timer
\* that runs clicks one anchor.
C29_TwoDownloads ==
    /\ (/\ handleDownloadAll
        /\ Len(conversions) = 2
        /\ \A i \in 1..Len(conversions) : conversions[i].status = "completed")
          => /\ Len(timers') = Len(timers) + 2
             /\ timers'[Len(timers) + 1].id = conversions[1].id
             /\ timers'[Len(timers) + 2].id = conversions[2].id
             /\ timers'[Len(timers) + 2].wait - timers'[Len(timers) + 1].wait >= 500
    /\ FireTimer => Len(clicked') = 1 /\ Len(timers') = Len(timers) - 1

C30_FailedBackToReady ==
    [][\A i \in 1..Len(conversions), j \in 1..Len(conversions') :
          (/\ conversions[i].id = conversions'[j].id
           /\ conversions[i].status = "failed"
           /\ conversions'[j].status # "failed")
          => /\ conversions'[j].status = "ready"
             /\ conversions'[j].progress = 0
             /\ conversions'[j].downloadUrl = NoUrl
             /\ conversions'[j].file = conversions[i].file]_vars

----------------------------------------------------------------------------
\* Properties of the upload response, the dashboard and the progress timer

\* C31: an upload that fails as a whole (non-2xx response or rejected
\* request) creates no record and leaves conversions, completedConversions
\* and showConversionInterface as they are; isProcessing is false afterwards.
C31_RejectedUploadNoJob ==
    [][UploadReject
       => /\ UNCHANGED <<conversions, completedConversions, showConversionInterface>>
          /\ ~isProcessing'
          /\ upload' = NoUpload]_vars

C31_Witness ==
    /\ toast = {"Upload failed"}
    /\ ~isProcessing
    /\ upload = NoUpload
    /\ ~showConversionInterface
    /\ conversions = <<>>

\* C32, step part: a message received on the socket of job id leaves every
\* other job of the list as it is.
C32_OthersUnchanged ==
    \A id \in DashboardIds, data \in Messages :
        onmessage(id, data)
        => /\ Len(jobs') = Len(jobs)
           /\ \A i \in 1..Len(jobs) : jobs[i].id # id => jobs'[i] = jobs[i]

\* C32, unknown id: the merge of a message for an id that no job has changes
\* nothing.
C32_UnknownIdNoOp ==
    \A id \in DashboardIds \ Ids(jobs), data \in Messages :
        MergeById(jobs, id, data) = jobs

\* C32: a status message received on the connection of job X is applied to
\* job X only; every other job is unchanged, and a message for an id that is
\* not in the list changes nothing.
C32_MessageRoutedById == []C32_UnknownIdNoOp /\ [][C32_OthersUnchanged]_vars

C32_Witness ==
    /\ Len(jobs) = 2
    /\ {jobs[1].id, jobs[2].id} \subseteq sockets
    /\ jobs[1].status = "pending"
    /\ jobs[2].status = "processing"
    /\ jobs[2].progress = 30
    /\ delivered > 0

\* C33: startConversion sends its requests in the order create, upload,
\* start, each after the one before it succeeded, and opens the status
\* channel between the upload and the start: the upload is sent for the job
\* just created, a start request only for the job whose upload succeeded, and
\* a socket is opened only for that job at that moment.
C33_StartOrder ==
    [][/\ (start'.pc = "create" /\ start.pc # "create")
          => start.pc = "idle" /\ UNCHANGED <<jobs, sockets>>
       /\ (start'.pc = "upload" /\ start.pc # "upload")
          => /\ start.pc = "create"
             /\ Len(jobs') = Len(jobs) + 1
             /\ jobs'[1].id = start'.job
             /\ start'.job \notin Ids(jobs)
             /\ UNCHANGED sockets
       /\ (start'.pc = "start" /\ start.pc # "start")
          => /\ start.pc = "upload"
             /\ start'.job = start.job
             /\ start.job \in Ids(jobs)
             /\ sockets' = sockets \cup {start.job}
       /\ \A id \in sockets' \ sockets :
             start.pc = "upload" /\ start'.pc = "start" /\ id = start.job]_vars

C33_Witness ==
    /\ start.pc = "start"
    /\ start.job \in sockets
    /\ Len(jobs) = 2
    /\ jobs[1].id = start.job
    /\ jobs[2].id \notin sockets
    /\ jobs[2].status = "pending"

\* C34, steps: a failed request of startConversion leaves selectedFiles and
\* the conversion type as they are, the form is cleared only by a successful
\* start, and a call without a type or without files sends nothing and
\* changes no state.
C34_Steps ==
    /\ requestRejected => UNCHANGED <<appFiles, conversionType>> /\ ~processing'
    /\ startResolved => appFiles' = <<>> /\ conversionType' = "" /\ ~processing'
    /\ (appFiles # <<>> /\ appFiles' = <<>>) => start.pc = "start" /\ start' = NoStart
    /\ (conversionType # "" /\ conversionType' = "") => start.pc = "start" /\ start' = NoStart
    /\ (startConversion /\ (conversionType = "" \/ Len(appFiles) = 0))
          => UNCHANGED <<jobs, appFiles, conversionType, processing, start, sockets,
                         delivered>>

\* C34, the flag: processing is true exactly while a call of startConversion
\* is pending.
C34_ProcessingFlag == processing <=> start.pc # "idle"

C35_Capped ==
    \A i \in 1..Len(conversions) :
        /\ conversions[i].status = "converting"
              => conversions[i].progress \in {10 * n : n \in 0..9}
        /\ conversions[i].progress = 100 => conversions[i].status = "completed"

\* C35, steps: a tick of the interval of a record raises the progress of a
\* converting record by 10, or leaves it at 90, and changes no other record;
\* a record gets progress 100 only in the step that makes it completed.
C35_Ticks ==
    /\ \A id \in JobIds :
          intervalTick(id)
          => /\ Len(conversions') = Len(conversions)
             /\ \A i \in 1..Len(conversions) :
                   /\ conversions[i].id # id => conversions'[i] = conversions[i]
                   /\ (conversions[i].id = id /\ conversions[i].status = "converting")
                         => /\ conversions'[i].status = "converting"
                            /\ conversions'[i].progress =
                                  IF conversions[i].progress < 90
                                  THEN conversions[i].progress + 10
                                  ELSE conversions[i].progress
    /\ \A i \in 1..Len(conversions), j \in 1..Len(conversions') :
          (/\ conversions[i].id = conversions'[j].id
           /\ conversions[i].progress # 100
           /\ conversions'[j].progress = 100)
          => /\ conversions[i].status = "converting"
             /\ conversions'[j].status = "completed"
             /\ run.pc = "blob"

\* C35: while the conversion request of a record is pending its progress
\* advances by 10 per tick of the interval and never exceeds 90; progress 100
\* is recorded only by the step to completed, so progress = 100 implies
\* status = completed.
C35_SyntheticProgress == []C35_Capped /\ [][C35_Ticks]_vars

C35_Witness ==
    /\ run.pc = "fetch"
    /\ progressInterval = Current.id
    /\ \E i \in 1..Len(conversions) :
          /\ conversions[i].id = Current.id
          /\ conversions[i].status = "converting"
          /\ conversions[i].progress = 90

\* C36: the progress interval of an attempt is cleared by the time the
\* attempt ends: an interval callback runs only for the record whose
\* conversion request is pending.
C36_TimersStopped ==
    [][\A id \in JobIds :
          intervalTick(id) => run.pc = "fetch" /\ Current.id = id]_vars

\* C37: a job that is cancelled stays cancelled, whatever message arrives on
\* its connection afterwards, and a cancel request that fails changes no job.
C37_CancelledStays ==
    [][/\ \A i \in 1..Len(jobs), j \in 1..Len(jobs') :
             (jobs[i].id = jobs'[j].id /\ jobs[i].status = "cancelled")
                => jobs'[j].status = "cancelled"
       /\ \A id \in DashboardIds : cancelJob(id, FALSE) => UNCHANGED jobs]_vars

\* C38: the format in the file name of every download is the format that
\* was sent in the conversion request which produced the download handle.
C38_NameMatchesRequest ==
    \A k \in 1..Len(clicked) :
        clicked[k].download[2] = toLowerCase(clicked[k].href[1])

\* C39: the callback of a timer of handleDownloadAll clicks an anchor only
\* if its record is, when the callback runs, still in conversions with status
\* completed; for a record removed in between it clicks nothing.
C39_TimerChecksJob ==
    [][FireTimer
       => /\ \A k \in 1..Len(clicked') :
                clicked'[k].id \in Ids(completedOnly(conversions))
          /\ (\A k \in DueTimers : timers[k].id \notin Ids(conversions))
                => clicked' = <<>>]_vars

\* C40: every record built from an upload response wraps the file that its
\* source format and supported formats were computed from.
C40_RecordWrapsItsFile ==
    \A i \in 1..Len(conversions) :
        /\ conversions[i].originalFormat = SourceFormat(conversions[i].file)
        /\ conversions[i].supportedFormats = BackendFormats(conversions[i].file)

====
